---- MODULE Spec2Model ----
(***************************************************************************)
(* The class portal's assignment-completion workflow and its per-unit      *)
(* ranking (DatabaseStorage.completeAssignment, createAssignment,          *)
(* getUnitRankings and the routes that call them).                          *)
(*                                                                         *)
(* Tables are sequences in insertion order; a row's serial id is its       *)
(* index.  Timestamps are integers (milliseconds).  Every request runs in  *)
(* a process slot and is cut at its awaits, so that requests interleave    *)
(* the way the event loop and the database let them.                       *)
(***************************************************************************)
EXTENDS Integers, Sequences, FiniteSets, TLC

\* ------------------------------------------------------------ bounds
MaxTime == 1
MaxAssignments == 2
MaxCompletions == 2
\* sizes of the stored tables SpecRank starts from
RankAssignments == 2

\* .slice(0, 3)
RecentCap == 3

\* getUserRank: return 3
PlaceholderRank == 3

\* 10 * 60 * 60 * 1000 ms; the clock of the model counts hours
TenHours == 10

\* one stored completion more than a recent list holds
RankCompletions == RecentCap + 1

Users == {1, 2}
Units == {"U1", "U2"}
Procs == {"p1", "p2"}
RankProc == "p1"

\* the unit codes of the units table; requests may name any code of Units
StoredUnits == {"U1"}

\* users.rank as the seed inserts it: the first user 1, the second 2
SeededRank(u) == u

\* ------------------------------------------------------------ passwords

\* the passwords a user can type; the first is the seed's default password
Passwords == {"a", "b"}
DefaultPassword == "a"

\* randomBytes(16).toString("hex")
Salts == {"s1", "s2"}

\* scryptAsync(password, salt, 64): taken as free of collisions, so the digest
\* stands for the pair it was computed from
Scrypt(password, salt) == <<password, salt>>

\* `${buf.toString("hex")}.${salt}`
HashPassword(password, salt) == [hashed |-> Scrypt(password, salt), salt |-> salt]

\* stored.split("."), scrypt of the supplied password with the stored salt,
\* timingSafeEqual
ComparePasswords(supplied, stored) == Scrypt(supplied, stored.salt) = stored.hashed

\* ------------------------------------------------------------ seeded rows

NameOf(u) == IF u = 1 THEN "John Doe" ELSE "Jane Smith"
AdmissionNumberOf(u) == IF u = 1 THEN "SDS001" ELSE "SDS002"

\* the users the seed inserts (the first two of its three), all with the default
\* password hashed once
SeedUsers(salt) ==
  [u \in Users |->
     [id |-> u, name |-> NameOf(u), admissionNumber |-> AdmissionNumberOf(u),
      password |-> HashPassword(DefaultPassword, salt)]]

\* the units the seed inserts (one of its six)
SeedUnits == [i \in 1..1 |-> [id |-> i, unitCode |-> "U1"]]

VARIABLES now, assignments, assignmentDeadline, completedAssignments, userRank,
          users, units, userNoteViews, userPaperViews, pc, req, res

vars == <<now, assignments, assignmentDeadline, completedAssignments, userRank, users, units,
          userNoteViews, userPaperViews, pc, req, res>>

\* the tables the assignment, completion and rankings requests leave alone
viewTables == <<userNoteViews, userPaperViews>>
otherTables == <<assignmentDeadline, users, units, viewTables>>

\* ------------------------------------------------------------ helpers
\* req.body.deadline: left out, a string new Date() cannot read, or an instant
NoDeadline == [kind |-> "missing", time |-> 0]
InvalidDate == [kind |-> "invalid", time |-> 0]
DateOf(t) == [kind |-> "date", time |-> t]

Min(S) == CHOOSE x \in S : \A y \in S : x <= y

NoReq ==
  [op |-> "none", unitCode |-> "", assignmentId |-> 0, userId |-> 0,
   completedAt |-> 0, unitAssignments |-> <<>>, userCompletions |-> <<>>,
   queries |-> 0, dbError |-> FALSE, overlapped |-> FALSE,
   deadline |-> NoDeadline, checkedAt |-> 0, itemId |-> 0,
   assignmentsCount |-> 0, overdue |-> 0, authenticated |-> FALSE,
   name |-> "", admissionNumber |-> "", password |-> "",
   currentPassword |-> "", newPassword |-> ""]

NoRes == [status |-> 0, body |-> <<>>]

\* ------------------------------------------------------------ getUnitRankings, the computation

\* unitAssignments.find(a => a.id === completion.assignmentId): the index of the
\* first match, 0 when there is none (undefined)
FindAssignment(unitAssignments, completion) ==
  LET hits == {i \in DOMAIN unitAssignments :
                 unitAssignments[i].id = completion.assignmentId}
  IN IF hits = {} THEN 0 ELSE Min(hits)

GroupKeyByAssignment(completion) == completion.assignmentId

\* the key of userCompletionMap
GroupKey(completion) == completion.userId

HasKey(map, key) == \E i \in DOMAIN map : map[i].userId = key

\* userCompletionMap.set(key, {userId, ..., completions: []}) when the key is new;
\* a Map keeps its keys in insertion order
EnsureGroup(map, key) ==
  IF HasKey(map, key) THEN map
  ELSE Append(map, [userId |-> key, completions |-> <<>>])

PushCompletionToAll(map, key, item) ==
  [i \in DOMAIN map |-> [map[i] EXCEPT !.completions = Append(@, item)]]

PushCompletion(map, key, item) ==
  [i \in DOMAIN map |->
     IF map[i].userId = key
     THEN [map[i] EXCEPT !.completions = Append(@, item)]
     ELSE map[i]]

GroupStepEager(map, completion, unitAssignments) ==
  LET k == FindAssignment(unitAssignments, completion)
      grown == EnsureGroup(map, GroupKey(completion))
  IN IF k = 0 THEN grown
     ELSE PushCompletion(grown, GroupKey(completion),
                         [assignmentId |-> completion.assignmentId,
                          completedAt |-> completion.completedAt,
                          createdAt |-> unitAssignments[k].createdAt])

\* one iteration of the loop over userCompletions
GroupStep(map, completion, unitAssignments) ==
  LET k == FindAssignment(unitAssignments, completion)
  IN IF k = 0 THEN map
     ELSE PushCompletion(EnsureGroup(map, GroupKey(completion)),
                         GroupKey(completion),
                         [assignmentId |-> completion.assignmentId,
                          completedAt |-> completion.completedAt,
                          createdAt |-> unitAssignments[k].createdAt])

RECURSIVE GroupCompletions(_, _, _)
GroupCompletions(map, userCompletions, unitAssignments) ==
  IF userCompletions = <<>> THEN map
  ELSE GroupCompletions(GroupStep(map, Head(userCompletions), unitAssignments),
                        Tail(userCompletions), unitAssignments)

\* completions.reduce((sum, c) => sum + (completedAt - createdAt), 0)
RECURSIVE TotalTimeMs(_)
TotalTimeMs(completions) ==
  IF completions = <<>> THEN 0
  ELSE (Head(completions).completedAt - Head(completions).createdAt)
       + TotalTimeMs(Tail(completions))

AvgTimeMsFloored(totalTimeMs, length) ==
  IF length > 0 THEN [num |-> totalTimeMs \div length, den |-> 1]
  ELSE [num |-> 0, den |-> 1]

\* totalTimeMs / length, a JavaScript number: kept as the fraction num/den, which
\* the double holds to its precision (no integer rounding is applied)
AvgTimeMs(totalTimeMs, length) ==
  IF length > 0 THEN [num |-> totalTimeMs, den |-> length]
  ELSE [num |-> 0, den |-> 1]

SortTiesReversed(s, sign) ==
  LET before(i) == {j \in DOMAIN s :
                      \/ sign[j][i] < 0
                      \/ sign[j][i] = 0 /\ j > i}
  IN [k \in DOMAIN s |-> s[CHOOSE i \in DOMAIN s : Cardinality(before(i)) + 1 = k]]

\* Array.prototype.sort with a consistent comparator, which is stable: element i
\* lands after every element that compares smaller and after the equal ones that
\* stood before it.  sign[i][j] is the sign of comparator(s[i], s[j]).
StableSort(s, sign) ==
  LET before(i) == {j \in DOMAIN s :
                      \/ sign[j][i] < 0
                      \/ sign[j][i] = 0 /\ j < i}
  IN [k \in DOMAIN s |-> s[CHOOSE i \in DOMAIN s : Cardinality(before(i)) + 1 = k]]

\* (a, b) => new Date(b.completedAt).getTime() - new Date(a.completedAt).getTime()
CompareRecent(a, b) == b.completedAt - a.completedAt

RecentCompletionsUnsorted(completions) ==
  SubSeq(completions, 1,
         IF Len(completions) < RecentCap THEN Len(completions) ELSE RecentCap)

\* userData.completions.sort(...).slice(0, 3)
RecentCompletions(completions) ==
  LET sorted == StableSort(completions,
                           [i \in DOMAIN completions |->
                              [j \in DOMAIN completions |->
                                 CompareRecent(completions[i], completions[j])]])
  IN SubSeq(sorted, 1, IF Len(sorted) < RecentCap THEN Len(sorted) ELSE RecentCap)

CompletedCountDistinct(completions) ==
  Cardinality({completions[i].assignmentId : i \in DOMAIN completions})

\* completedAssignments: userData.completions.length
CompletedCount(completions) == Len(completions)

\* rankings.push({...}) for one userData
RankingOf(userData) ==
  [userId |-> userData.userId,
   completedAssignments |-> CompletedCount(userData.completions),
   totalMilliseconds |-> AvgTimeMs(TotalTimeMs(userData.completions),
                                  Len(userData.completions)),
   recentCompletions |-> RecentCompletions(userData.completions),
   position |-> 0]

CompareRankingsDescending(a, b) ==
  b.totalMilliseconds.num * a.totalMilliseconds.den
    - a.totalMilliseconds.num * b.totalMilliseconds.den

\* (a, b) => a.totalMilliseconds - b.totalMilliseconds, its sign (den > 0)
CompareRankings(a, b) ==
  a.totalMilliseconds.num * b.totalMilliseconds.den
    - b.totalMilliseconds.num * a.totalMilliseconds.den

\* ranking.position = index + 1, index 0-based
PositionOf(index) == index + 1

AssignPositionsByValue(rankings) ==
  [i \in DOMAIN rankings |->
     [rankings[i] EXCEPT !.position =
        1 + Cardinality({j \in DOMAIN rankings :
                           rankings[j].totalMilliseconds.num
                               * rankings[i].totalMilliseconds.den
                             < rankings[i].totalMilliseconds.num
                               * rankings[j].totalMilliseconds.den})]]

\* rankings.forEach((ranking, index) => { ranking.position = index + 1 })
AssignPositions(rankings) ==
  [i \in DOMAIN rankings |-> [rankings[i] EXCEPT !.position = PositionOf(i - 1)]]

\* the part of getUnitRankings after its two reads
ComputeRankings(unitAssignments, userCompletions) ==
  LET map == GroupCompletions(<<>>, userCompletions, unitAssignments)
      rankings == [i \in DOMAIN map |-> RankingOf(map[i])]
  IN AssignPositions(
       StableSort(rankings,
                  [i \in DOMAIN rankings |->
                     [j \in DOMAIN rankings |->
                        CompareRankings(rankings[i], rankings[j])]]))

\* ------------------------------------------------------------ the reads

\* select().from(assignments).where(eq(assignments.unitCode, unitCode))
SelectUnitAssignments(unitCode) ==
  SelectSeq(assignments, LAMBDA a : a.unitCode = unitCode)

JoinedCompletionsFirstOnly(unitCode) ==
  LET keep(c) == /\ c.userId \in Users
                 /\ \E i \in DOMAIN assignments :
                      /\ assignments[i].id = c.assignmentId
                      /\ assignments[i].unitCode = unitCode
      rows == SelectSeq(completedAssignments, keep)
  IN [i \in (DOMAIN rows) \cap {1} |->
        [userId |-> rows[i].userId,
         assignmentId |-> rows[i].assignmentId,
         completedAt |-> rows[i].completedAt]]

\* the rows of completedAssignments joined with users and with the assignments of
\* the unit, in table order
JoinedCompletions(unitCode) ==
  LET keep(c) == /\ c.userId \in Users
                 /\ \E i \in DOMAIN assignments :
                      /\ assignments[i].id = c.assignmentId
                      /\ assignments[i].unitCode = unitCode
      rows == SelectSeq(completedAssignments, keep)
  IN [i \in DOMAIN rows |->
        [userId |-> rows[i].userId,
         assignmentId |-> rows[i].assignmentId,
         completedAt |-> rows[i].completedAt]]

\* the query has no ORDER BY: the rows come back in any order
SelectUserCompletions(unitCode) ==
  LET rows == JoinedCompletions(unitCode)
  IN {[i \in DOMAIN rows |-> rows[f[i]]] : f \in Permutations(DOMAIN rows)}

UnitIsNeverEmpty(unitAssignments) == FALSE

\* unitAssignments.length === 0
UnitIsEmpty(unitAssignments) == Len(unitAssignments) = 0

\* ------------------------------------------------------------ responses

Finish(p, r, status, body) ==
  /\ pc' = [pc EXCEPT ![p] = "done"]
  /\ req' = [req EXCEPT ![p] = r]
  /\ res' = [res EXCEPT ![p] = [status |-> status, body |-> body]]

RankingsOkOrNotFound(p, r, rankings) ==
  IF rankings = <<>> THEN Finish(p, r, 404, <<>>) ELSE Finish(p, r, 200, rankings)

\* res.json(rankings)
RankingsOk(p, r, rankings) == Finish(p, r, 200, rankings)

DbErrorSwallowed(p, r) == Finish(p, [r EXCEPT !.dbError = TRUE], 200, <<>>)

\* a database call throws; catch (err) { res.status(500).json(...) }
DbError(p, r) == Finish(p, [r EXCEPT !.dbError = TRUE], 500, <<>>)

UnauthorizedAfterQuery(p, op) ==
  Finish(p, [NoReq EXCEPT !.op = op, !.queries = 1], 401, <<>>)

\* if (!req.isAuthenticated()) return res.sendStatus(401)
Unauthorized(p, op) == Finish(p, [NoReq EXCEPT !.op = op], 401, <<>>)

\* ------------------------------------------------------------ GET /api/units/:unitCode/rankings

RankStart(p, unitCode, authed) ==
  /\ pc[p] = "idle"
  /\ UNCHANGED <<now, assignments, completedAssignments, userRank>>
  /\ UNCHANGED otherTables
  /\ LET r == [NoReq EXCEPT !.authenticated = authed, !.op = "rankings",
                            !.unitCode = unitCode, !.queries = 1]
     IN IF ~authed THEN Unauthorized(p, "rankings")
        ELSE \/ DbError(p, r)
             \/ LET unitAssignments == SelectUnitAssignments(unitCode)
                IN IF UnitIsEmpty(unitAssignments)
                   THEN RankingsOk(p, r, <<>>)
                   ELSE /\ pc' = [pc EXCEPT ![p] = "rank_completions"]
                        /\ req' = [req EXCEPT ![p] =
                                     [r EXCEPT !.unitAssignments = unitAssignments]]
                        /\ UNCHANGED res

\* another rankings call stands between its two queries (kept with the request
\* to tell afterwards that the two calls overlapped; the code reads nothing of it)
OtherRankingInFlight(p) == \E q \in Procs \ {p} : pc[q] = "rank_completions"

RankFinishShared(p) ==
  /\ pc[p] = "rank_completions"
  /\ UNCHANGED <<now, assignments, completedAssignments, userRank>>
  /\ UNCHANGED otherTables
  /\ LET r == [req[p] EXCEPT !.queries = @ + 1, !.overlapped = OtherRankingInFlight(p)]
         latest == IF OtherRankingInFlight(p)
                   THEN CHOOSE q \in Procs \ {p} : pc[q] = "rank_completions"
                   ELSE p
     IN \/ DbError(p, r)
        \/ \E userCompletions \in SelectUserCompletions(r.unitCode) :
             RankingsOk(p, [r EXCEPT !.userCompletions = userCompletions],
                        ComputeRankings(req[latest].unitAssignments, userCompletions))

RankFinishWritingRank(p) ==
  /\ pc[p] = "rank_completions"
  /\ UNCHANGED <<now, assignments, completedAssignments>>
  /\ UNCHANGED otherTables
  /\ LET r == [req[p] EXCEPT !.queries = @ + 1, !.overlapped = OtherRankingInFlight(p)]
     IN \/ DbError(p, r) /\ UNCHANGED userRank
        \/ \E userCompletions \in SelectUserCompletions(r.unitCode) :
             LET rankings == ComputeRankings(r.unitAssignments, userCompletions)
             IN /\ RankingsOk(p, [r EXCEPT !.userCompletions = userCompletions], rankings)
                /\ userRank' =
                     [u \in Users |->
                        IF \E i \in DOMAIN rankings : rankings[i].userId = u
                        THEN (CHOOSE i \in DOMAIN rankings : rankings[i].userId = u)
                        ELSE userRank[u]]

RankFinish(p) ==
  /\ pc[p] = "rank_completions"
  /\ UNCHANGED <<now, assignments, completedAssignments, userRank>>
  /\ UNCHANGED otherTables
  /\ LET r == [req[p] EXCEPT !.queries = @ + 1, !.overlapped = OtherRankingInFlight(p)]
     IN \/ DbError(p, r)
        \/ \E userCompletions \in SelectUserCompletions(r.unitCode) :
             RankingsOk(p, [r EXCEPT !.userCompletions = userCompletions],
                        ComputeRankings(r.unitAssignments, userCompletions))

\* ------------------------------------------------------------ POST .../assignments

\* deadlineDate < minDeadline, with minDeadline ten hours after the handler's
\* new Date(): only a deadline new Date() could read is compared
DeadlineNeverTooEarly(deadline, checkedAt) == FALSE

DeadlineTooEarly(deadline, checkedAt) ==
  deadline.kind = "date" /\ deadline.time < checkedAt + TenHours

\* insertAssignmentSchema.safeParse: deadline has to be a valid Date
SchemaRejects(deadline) == deadline.kind # "date"

CreateAssignmentTouching(p, unitCode, deadline, checkedAt, authed) ==
  /\ pc[p] = "idle"
  /\ Len(assignments) < MaxAssignments
  /\ UNCHANGED <<now, completedAssignments, userRank>>
  /\ UNCHANGED <<users, units, viewTables>>
  /\ LET r == [NoReq EXCEPT !.authenticated = authed, !.op = "create", !.unitCode = unitCode,
                            !.deadline = deadline, !.checkedAt = checkedAt]
         q == [r EXCEPT !.queries = 1]
     IN IF ~authed THEN Unauthorized(p, "create") /\ UNCHANGED <<assignments, assignmentDeadline>>
        ELSE IF DeadlineTooEarly(deadline, checkedAt) \/ SchemaRejects(deadline)
        THEN Finish(p, r, 400, <<>>) /\ UNCHANGED <<assignments, assignmentDeadline>>
        ELSE \/ DbError(p, q) /\ UNCHANGED <<assignments, assignmentDeadline>>
             \/ LET row == [id |-> Len(assignments) + 1, unitCode |-> unitCode,
                            createdAt |-> now]
                    touched == [i \in DOMAIN assignments |->
                                  [assignments[i] EXCEPT !.createdAt = now]]
                IN /\ assignments' = Append(touched, row)
                   /\ assignmentDeadline' = Append(assignmentDeadline, deadline.time)
                   /\ Finish(p, [q EXCEPT !.assignmentId = row.id], 201, <<>>)

\* the handler validates the deadline against its own clock at checkedAt; the
\* row is inserted afterwards and created_at is the database clock at the insert
CreateAssignment(p, unitCode, deadline, checkedAt, authed) ==
  /\ pc[p] = "idle"
  /\ Len(assignments) < MaxAssignments
  /\ UNCHANGED <<now, completedAssignments, userRank>>
  /\ UNCHANGED <<users, units, viewTables>>
  /\ LET r == [NoReq EXCEPT !.authenticated = authed, !.op = "create", !.unitCode = unitCode,
                            !.deadline = deadline, !.checkedAt = checkedAt]
         q == [r EXCEPT !.queries = 1]
     IN IF ~authed THEN Unauthorized(p, "create") /\ UNCHANGED <<assignments, assignmentDeadline>>
        ELSE IF DeadlineTooEarly(deadline, checkedAt) \/ SchemaRejects(deadline)
        THEN Finish(p, r, 400, <<>>) /\ UNCHANGED <<assignments, assignmentDeadline>>
        ELSE \/ DbError(p, q) /\ UNCHANGED <<assignments, assignmentDeadline>>
             \/ LET row == [id |-> Len(assignments) + 1, unitCode |-> unitCode,
                            createdAt |-> now]
                IN /\ assignments' = Append(assignments, row)
                   /\ assignmentDeadline' = Append(assignmentDeadline, deadline.time)
                   /\ Finish(p, [q EXCEPT !.assignmentId = row.id], 201, <<>>)

\* ------------------------------------------------------------ POST .../assignments/:assignmentId/complete

ExistingCompletionNow(assignmentId, userId) ==
  \E i \in DOMAIN completedAssignments :
    /\ completedAssignments[i].assignmentId = assignmentId
    /\ completedAssignments[i].userId = userId
    /\ completedAssignments[i].completedAt = now

ExistingCompletion(assignmentId, userId) ==
  \E i \in DOMAIN completedAssignments :
    /\ completedAssignments[i].assignmentId = assignmentId
    /\ completedAssignments[i].userId = userId

CompleteStart(p, assignmentId, userId, authed) ==
  /\ pc[p] = "idle"
  /\ UNCHANGED <<now, assignments, completedAssignments, userRank>>
  /\ UNCHANGED otherTables
  /\ LET r == [NoReq EXCEPT !.authenticated = authed, !.op = "complete", !.assignmentId = assignmentId,
                            !.userId = userId, !.queries = 1]
     IN IF ~authed THEN Unauthorized(p, "complete")
        ELSE \/ DbError(p, r)
             \/ IF ExistingCompletion(assignmentId, userId)
                THEN Finish(p, r, 200, <<"alreadyCompleted">>)
                ELSE /\ pc' = [pc EXCEPT ![p] = "complete_insert"]
                     /\ req' = [req EXCEPT ![p] = [r EXCEPT !.completedAt = now]]
                     /\ UNCHANGED res

\* assignment_id REFERENCES assignments(id)
AssignmentExists(assignmentId) ==
  \E i \in DOMAIN assignments : assignments[i].id = assignmentId

\* const completedAt = new Date(): read after the existence check has answered
\* and before the insert runs, at any moment between the two
NewDate(checkedAt) == checkedAt..now

UpdateUserRankFromCompletions(userId) ==
  userRank' = [userRank EXCEPT ![userId] =
                 1 + Cardinality({i \in DOMAIN completedAssignments :
                                    completedAssignments[i].userId = userId})]

\* private async updateUserRank(userId): its body is two comments
UpdateUserRank(userId) == userRank' = userRank

\* the insert, then the selects of the assignment and of the user (either may
\* throw, the row stays), then updateUserRank
CompleteInsert(p) ==
  /\ pc[p] = "complete_insert"
  /\ UNCHANGED <<now, assignments>>
  /\ UNCHANGED otherTables
  /\ LET r == [req[p] EXCEPT !.queries = @ + 1]
     IN \/ DbError(p, r) /\ UNCHANGED <<completedAssignments, userRank>>
        \/ IF ~AssignmentExists(r.assignmentId)
           THEN DbError(p, r) /\ UNCHANGED <<completedAssignments, userRank>>
           ELSE /\ Len(completedAssignments) < MaxCompletions
                /\ \E completedAt \in NewDate(r.completedAt) :
                     LET done == [r EXCEPT !.completedAt = completedAt]
                     IN /\ completedAssignments' =
                             Append(completedAssignments,
                                    [id |-> Len(completedAssignments) + 1,
                                     assignmentId |-> r.assignmentId,
                                     userId |-> r.userId,
                                     completedAt |-> completedAt])
                        /\ \/ /\ UpdateUserRank(r.userId)
                              /\ Finish(p, done, 200, <<"completed">>)
                           \/ DbError(p, done) /\ UNCHANGED userRank

\* ------------------------------------------------------------ the rest

\* the response is sent and the slot is free for the next request
Return(p) ==
  /\ pc[p] = "done"
  /\ pc' = [pc EXCEPT ![p] = "idle"]
  /\ req' = [req EXCEPT ![p] = NoReq]
  /\ res' = [res EXCEPT ![p] = NoRes]
  /\ UNCHANGED <<now, assignments, completedAssignments, userRank>>
  /\ UNCHANGED otherTables

Tick ==
  /\ now < MaxTime
  /\ now' = now + 1
  /\ UNCHANGED <<assignments, completedAssignments, userRank, pc, req, res>>
  /\ UNCHANGED otherTables

Init ==
  /\ now = 0
  /\ assignments = <<>>
  /\ assignmentDeadline = <<>>
  /\ completedAssignments = <<>>
  /\ userRank = [u \in Users |-> SeededRank(u)]
  /\ users = SeedUsers("s1")
  /\ units = SeedUnits
  /\ userNoteViews = <<>>
  /\ userPaperViews = <<>>
  /\ pc = [p \in Procs |-> "idle"]
  /\ req = [p \in Procs |-> NoReq]
  /\ res = [p \in Procs |-> NoRes]

Next ==
  \/ Tick
  \/ \E p \in Procs, u \in Units, authed \in BOOLEAN :
       CreateAssignment(p, u, DateOf(now + TenHours), now, authed)
  \/ \E p \in Procs, a \in 1..MaxAssignments, u \in Users, authed \in BOOLEAN :
       CompleteStart(p, a, u, authed)
  \/ \E p \in Procs : CompleteInsert(p)
  \/ \E p \in Procs, u \in Units, authed \in BOOLEAN : RankStart(p, u, authed)
  \/ \E p \in Procs : RankFinish(p)
  \/ \E p \in Procs : Return(p)

Spec == Init /\ [][Next]_vars

\* ------------------------------------------------------------ rankings over stored tables

\* The assignments tables of at most n rows: ids are serial, createdAt is the
\* database clock at the insert, so it does not decrease along the table.
AssignmentTables(n) ==
  UNION {
    {t \in {[i \in 1..k |-> [id |-> i, unitCode |-> u[i], createdAt |-> c[i]]] :
              u \in [1..k -> Units], c \in [1..k -> 0..MaxTime]} :
       \A i \in 1..(k - 1) : t[i].createdAt <= t[i + 1].createdAt}
    : k \in 0..n}

\* The rows of completions made once the assignment was listed: written at or
\* after the assignment's creation, by a user of the portal.  (A row older than
\* its assignment takes a completion request racing the creation, see C12; the
\* rankings claims checked over these tables do not turn on the sign of a latency.)
CompletionRows(table) ==
  {[assignmentId |-> a, userId |-> u, completedAt |-> t] :
     a \in DOMAIN table, u \in Users, t \in 0..MaxTime}
  \cap {r \in [assignmentId : DOMAIN table, userId : Users, completedAt : 0..MaxTime] :
          table[r.assignmentId].createdAt <= r.completedAt}

RowLeq(r, s) ==
  \/ r.completedAt < s.completedAt
  \/ /\ r.completedAt = s.completedAt
     /\ \/ r.assignmentId < s.assignmentId
        \/ r.assignmentId = s.assignmentId /\ r.userId <= s.userId

\* The completions tables of at most n rows over `rows`, one table for each
\* multiset of rows (rows in time order): the reads return the rows in any order,
\* so the order of the table itself is never seen.  A pair may be stored more
\* than once: completeAssignment checks and inserts in two queries and the table
\* has no unique constraint on (assignment_id, user_id).
RECURSIVE CompletionTables(_, _)
CompletionTables(rows, n) ==
  IF n = 0 THEN {<<>>}
  ELSE LET shorter == CompletionTables(rows, n - 1)
       IN shorter \cup
          {Append(t, [id |-> Len(t) + 1, assignmentId |-> r.assignmentId,
                      userId |-> r.userId, completedAt |-> r.completedAt]) :
             <<t, r>> \in {x \in shorter \X rows :
                             /\ Len(x[1]) = n - 1
                             /\ x[1] = <<>> \/ RowLeq(x[1][Len(x[1])], x[2])}}

InitRank ==
  /\ now = MaxTime
  /\ assignments \in AssignmentTables(RankAssignments)
  /\ assignmentDeadline = [i \in DOMAIN assignments |-> assignments[i].createdAt + TenHours]
  /\ completedAssignments \in CompletionTables(CompletionRows(assignments), RankCompletions)
  /\ userRank = [u \in Users |-> SeededRank(u)]
  /\ users = SeedUsers("s1")
  /\ units = SeedUnits
  /\ userNoteViews = <<>>
  /\ userPaperViews = <<>>
  /\ pc = [p \in Procs |-> "idle"]
  /\ req = [p \in Procs |-> NoReq]
  /\ res = [p \in Procs |-> NoRes]

NextRank ==
  \/ \E u \in Units, authed \in BOOLEAN : RankStart(RankProc, u, authed)
  \/ RankFinish(RankProc)

SpecRank == InitRank /\ [][NextRank]_vars

\* ------------------------------------------------------------ POST /api/login

\* what a request can carry: a field left out is the empty string
PasswordInputs == Passwords \cup {""}
NameInputs == {NameOf(u) : u \in Users} \cup {"Nobody", ""}
AdmissionNumberInputs == {AdmissionNumberOf(u) : u \in Users} \cup {"SDS999", ""}

FindLoginUserByName(name, admissionNumber) ==
  LET exact == {u \in DOMAIN users :
                  /\ users[u].name = name
                  /\ users[u].admissionNumber = admissionNumber}
  IN IF exact # {} THEN Min(exact) ELSE 0

\* storage.getUserByCredentials(req.body.name, admissionNumber), then, when that
\* finds nobody, the select by admission number alone; 0 when both find nobody
FindLoginUser(name, admissionNumber) ==
  LET exact == {u \in DOMAIN users :
                  /\ users[u].name = name
                  /\ users[u].admissionNumber = admissionNumber}
      byAdmission == {u \in DOMAIN users : users[u].admissionNumber = admissionNumber}
  IN IF exact # {} THEN Min(exact)
     ELSE IF byAdmission # {} THEN Min(byAdmission)
     ELSE 0

\* passport-local answers 400 when a credential is missing and does not call the
\* verify callback; done(null, false) is answered 401, done(err) 500
Login(p, name, admissionNumber, password) ==
  /\ pc[p] = "idle"
  /\ UNCHANGED <<now, assignments, completedAssignments, userRank>>
  /\ UNCHANGED otherTables
  /\ LET r == [NoReq EXCEPT !.op = "login", !.name = name,
                            !.admissionNumber = admissionNumber,
                            !.password = password]
         user == FindLoginUser(name, admissionNumber)
     IN IF admissionNumber = "" \/ password = "" THEN Finish(p, r, 400, <<>>)
        ELSE \/ DbError(p, [r EXCEPT !.queries = 1])
             \/ IF user = 0
                THEN Finish(p, [r EXCEPT !.queries = 2], 401, <<>>)
                ELSE IF ~ComparePasswords(password, users[user].password)
                THEN Finish(p, [r EXCEPT !.queries = 1], 401, <<>>)
                ELSE Finish(p, [r EXCEPT !.queries = 1, !.userId = user], 200, <<user>>)

\* ------------------------------------------------------------ PATCH /api/user/password

\* the gate, the two required fields, storage.getUser(req.user.id) and
\* comparePasswords against the row it returned
ChangePasswordStart(p, userId, currentPassword, newPassword, authed) ==
  /\ pc[p] = "idle"
  /\ UNCHANGED <<now, assignments, completedAssignments, userRank>>
  /\ UNCHANGED otherTables
  /\ LET r == [NoReq EXCEPT !.authenticated = authed, !.op = "password", !.userId = userId,
                            !.currentPassword = currentPassword,
                            !.newPassword = newPassword]
         read == [r EXCEPT !.queries = 1]
     IN IF ~authed THEN Unauthorized(p, "password")
        ELSE IF currentPassword = "" \/ newPassword = "" THEN Finish(p, r, 400, <<>>)
        ELSE \/ DbError(p, read)
             \/ IF \/ userId \notin DOMAIN users
                   \/ ~ComparePasswords(currentPassword, users[userId].password)
                THEN Finish(p, read, 400, <<>>)
                ELSE /\ pc' = [pc EXCEPT ![p] = "password_update"]
                     /\ req' = [req EXCEPT ![p] = read]
                     /\ UNCHANGED res

\* hashPassword(newPassword) with a fresh salt, storage.updateUserPassword
ChangePasswordUpdate(p) ==
  /\ pc[p] = "password_update"
  /\ UNCHANGED <<now, assignments, completedAssignments, userRank>>
  /\ UNCHANGED <<assignmentDeadline, units, viewTables>>
  /\ LET r == [req[p] EXCEPT !.queries = @ + 1]
     IN \/ DbError(p, r) /\ UNCHANGED users
        \/ \E salt \in Salts :
             /\ users' = [users EXCEPT ![r.userId].password =
                                         HashPassword(r.newPassword, salt)]
             /\ Finish(p, r, 200, <<r.userId>>)

NextAuth ==
  \/ \E p \in Procs, name \in NameInputs, admissionNumber \in AdmissionNumberInputs,
        password \in PasswordInputs :
       Login(p, name, admissionNumber, password)
  \/ \E p \in Procs, u \in Users, currentPassword \in PasswordInputs,
        newPassword \in PasswordInputs, authed \in BOOLEAN :
       ChangePasswordStart(p, u, currentPassword, newPassword, authed)
  \/ \E p \in Procs : ChangePasswordUpdate(p)
  \/ \E p \in Procs : Return(p)

SpecAuth == Init /\ [][NextAuth]_vars

\* ------------------------------------------------------------ the create route alone

\* deadlines around the boundary: an hour short of ten hours from instant 0 up
\* to ten hours from the last instant, and the two that are no date
DeadlineInputs ==
  {NoDeadline, InvalidDate} \cup {DateOf(t) : t \in (TenHours - 1)..(TenHours + MaxTime)}

NextCreate ==
  \/ Tick
  \/ \E p \in Procs, u \in Units, deadline \in DeadlineInputs, checkedAt \in 0..now,
        authed \in BOOLEAN :
       CreateAssignment(p, u, deadline, checkedAt, authed)
  \/ \E p \in Procs : Return(p)

SpecCreate == Init /\ [][NextCreate]_vars

\* ------------------------------------------------------------ POST .../notes/:noteId/view, .../pastpapers/:paperId/view

\* ids a request can name; the stored notes and past papers are the rows of id 1
ItemIds == {1, 2}
StoredNotes == {1}
StoredPapers == {1}

\* the select on (noteId, userId) or (paperId, userId) returns a row
ExistingView(views, itemId, userId) ==
  \E i \in DOMAIN views : views[i].itemId = itemId /\ views[i].userId = userId

NoUniqueIndex(views, itemId, userId) == FALSE

\* uniqueIndex("unique_note_view") / uniqueIndex("unique_paper_view"): the
\* insert of a pair that is stored already throws
UniqueViolation(views, itemId, userId) == ExistingView(views, itemId, userId)

ViewRow(itemId, userId) == [itemId |-> itemId, userId |-> userId, viewedAt |-> now]

MarkNoteAsViewedStart(p, noteId, userId, authed) ==
  /\ pc[p] = "idle"
  /\ UNCHANGED <<now, assignments, completedAssignments, userRank>>
  /\ UNCHANGED otherTables
  /\ LET r == [NoReq EXCEPT !.authenticated = authed, !.op = "view_note", !.itemId = noteId,
                            !.userId = userId, !.queries = 1]
     IN IF ~authed THEN Unauthorized(p, "view_note")
        ELSE \/ DbError(p, r)
             \/ IF ExistingView(userNoteViews, noteId, userId)
                THEN Finish(p, r, 200, <<>>)
                ELSE /\ pc' = [pc EXCEPT ![p] = "note_insert"]
                     /\ req' = [req EXCEPT ![p] = r]
                     /\ UNCHANGED res

\* the insert: refused by the foreign key on notes.id or by the unique index
MarkNoteAsViewedInsert(p) ==
  /\ pc[p] = "note_insert"
  /\ UNCHANGED <<now, assignments, completedAssignments, userRank>>
  /\ UNCHANGED <<assignmentDeadline, users, units, userPaperViews>>
  /\ LET r == [req[p] EXCEPT !.queries = @ + 1]
     IN \/ DbError(p, r) /\ UNCHANGED userNoteViews
        \/ IF \/ r.itemId \notin StoredNotes
              \/ UniqueViolation(userNoteViews, r.itemId, r.userId)
           THEN DbError(p, r) /\ UNCHANGED userNoteViews
           ELSE /\ userNoteViews' = Append(userNoteViews, ViewRow(r.itemId, r.userId))
                /\ Finish(p, r, 200, <<>>)

MarkPastPaperAsViewedStart(p, paperId, userId, authed) ==
  /\ pc[p] = "idle"
  /\ UNCHANGED <<now, assignments, completedAssignments, userRank>>
  /\ UNCHANGED otherTables
  /\ LET r == [NoReq EXCEPT !.authenticated = authed, !.op = "view_paper", !.itemId = paperId,
                            !.userId = userId, !.queries = 1]
     IN IF ~authed THEN Unauthorized(p, "view_paper")
        ELSE \/ DbError(p, r)
             \/ IF ExistingView(userPaperViews, paperId, userId)
                THEN Finish(p, r, 200, <<>>)
                ELSE /\ pc' = [pc EXCEPT ![p] = "paper_insert"]
                     /\ req' = [req EXCEPT ![p] = r]
                     /\ UNCHANGED res

MarkPastPaperAsViewedInsert(p) ==
  /\ pc[p] = "paper_insert"
  /\ UNCHANGED <<now, assignments, completedAssignments, userRank>>
  /\ UNCHANGED <<assignmentDeadline, users, units, userNoteViews>>
  /\ LET r == [req[p] EXCEPT !.queries = @ + 1]
     IN \/ DbError(p, r) /\ UNCHANGED userPaperViews
        \/ IF \/ r.itemId \notin StoredPapers
              \/ UniqueViolation(userPaperViews, r.itemId, r.userId)
           THEN DbError(p, r) /\ UNCHANGED userPaperViews
           ELSE /\ userPaperViews' = Append(userPaperViews, ViewRow(r.itemId, r.userId))
                /\ Finish(p, r, 200, <<>>)

NextViews ==
  \/ Tick
  \/ \E p \in Procs, noteId \in ItemIds, u \in Users, authed \in BOOLEAN :
       MarkNoteAsViewedStart(p, noteId, u, authed)
  \/ \E p \in Procs : MarkNoteAsViewedInsert(p)
  \/ \E p \in Procs, paperId \in ItemIds, u \in Users, authed \in BOOLEAN :
       MarkPastPaperAsViewedStart(p, paperId, u, authed)
  \/ \E p \in Procs : MarkPastPaperAsViewedInsert(p)
  \/ \E p \in Procs : Return(p)

SpecViews == Init /\ [][NextViews]_vars

\* ------------------------------------------------------------ GET /api/dashboard/stats

\* the assignments the left join pairs with no completion of the user
Uncompleted(userId) ==
  {i \in DOMAIN assignments :
     ~\E j \in DOMAIN completedAssignments :
        /\ completedAssignments[j].assignmentId = assignments[i].id
        /\ completedAssignments[j].userId = userId}

\* lt(assignments.deadline, new Date()) and isNull(completedAssignments.id)
Overdue(userId, date) ==
  Cardinality({i \in Uncompleted(userId) : assignmentDeadline[i] < date})

\* gte(assignments.deadline, new Date()) and isNull(completedAssignments.id)
Pending(userId, date) ==
  Cardinality({i \in Uncompleted(userId) : assignmentDeadline[i] >= date})

\* the gate and the count of assignments (the counts of notes and past papers
\* follow it; their tables are not part of the model)
StatsStart(p, userId, authed) ==
  /\ pc[p] = "idle"
  /\ UNCHANGED <<now, assignments, completedAssignments, userRank>>
  /\ UNCHANGED otherTables
  /\ LET r == [NoReq EXCEPT !.authenticated = authed, !.op = "stats",
                            !.userId = userId, !.queries = 3]
     IN IF ~authed THEN Unauthorized(p, "stats")
        ELSE \/ DbError(p, r)
             \/ /\ pc' = [pc EXCEPT ![p] = "stats_overdue"]
                /\ req' = [req EXCEPT ![p] = [r EXCEPT !.assignmentsCount = Len(assignments)]]
                /\ UNCHANGED res

\* the overdue query, with its own new Date()
StatsOverdue(p) ==
  /\ pc[p] = "stats_overdue"
  /\ UNCHANGED <<now, assignments, completedAssignments, userRank>>
  /\ UNCHANGED otherTables
  /\ LET r == [req[p] EXCEPT !.queries = @ + 1]
     IN \/ DbError(p, r)
        \/ /\ pc' = [pc EXCEPT ![p] = "stats_pending"]
           /\ req' = [req EXCEPT ![p] = [r EXCEPT !.overdue = Overdue(r.userId, now)]]
           /\ UNCHANGED res

\* the pending query, with a new Date() of its own, then getUserRank and the result
StatsPending(p) ==
  /\ pc[p] = "stats_pending"
  /\ UNCHANGED <<now, assignments, completedAssignments, userRank>>
  /\ UNCHANGED otherTables
  /\ LET r == [req[p] EXCEPT !.queries = @ + 1]
     IN \/ DbError(p, r)
        \/ Finish(p, r, 200, <<[assignmentsCount |-> r.assignmentsCount,
                                rank |-> PlaceholderRank,
                                overdue |-> r.overdue,
                                pending |-> Pending(r.userId, now)]>>)

\* Stored tables for the dashboard: assignments created ten hours before
\* instant 0 with deadlines at the instants of the run, completions of them.
DashAssignmentTables(n) ==
  {[i \in 1..k |-> [id |-> i, unitCode |-> "U1", createdAt |-> 0 - TenHours]] : k \in 0..n}

DashCompletionRows(table) ==
  {[assignmentId |-> a, userId |-> u, completedAt |-> 0] : a \in DOMAIN table, u \in Users}

InitDash ==
  /\ now = 0
  /\ assignments \in DashAssignmentTables(RankAssignments)
  /\ assignmentDeadline \in [DOMAIN assignments -> 0..MaxTime]
  /\ completedAssignments \in CompletionTables(DashCompletionRows(assignments), MaxCompletions)
  /\ userRank = [u \in Users |-> SeededRank(u)]
  /\ users = SeedUsers("s1")
  /\ units = SeedUnits
  /\ userNoteViews = <<>>
  /\ userPaperViews = <<>>
  /\ pc = [p \in Procs |-> "idle"]
  /\ req = [p \in Procs |-> NoReq]
  /\ res = [p \in Procs |-> NoRes]

NextDash ==
  \/ Tick
  \/ \E u \in Users, authed \in BOOLEAN : StatsStart(RankProc, u, authed)
  \/ StatsOverdue(RankProc)
  \/ StatsPending(RankProc)
  \/ Return(RankProc)

SpecDash == InitDash /\ [][NextDash]_vars

\* ------------------------------------------------------------ seed()

\* the process running the seed script
SeedProc == "p1"

\* the promise of seed() rejects: seed().catch(console.error)
SeedFailed(p, r) ==
  /\ pc' = [pc EXCEPT ![p] = "done"]
  /\ req' = [req EXCEPT ![p] = [r EXCEPT !.dbError = TRUE]]
  /\ UNCHANGED res

SeedGoto(p, r, label) ==
  /\ pc' = [pc EXCEPT ![p] = label]
  /\ req' = [req EXCEPT ![p] = r]
  /\ UNCHANGED res

\* rows appended to a table take the next serial ids
Inserted(table, rows) ==
  table \o [i \in DOMAIN rows |-> [rows[i] EXCEPT !.id = Len(table) + i]]

\* users.admissionNumber and units.unitCode are unique
AdmissionNumberTaken(rows) ==
  \E i \in DOMAIN users, j \in DOMAIN rows :
    users[i].admissionNumber = rows[j].admissionNumber

UnitCodeTaken(rows) ==
  \E i \in DOMAIN units, j \in DOMAIN rows : units[i].unitCode = rows[j].unitCode

NoExisting(table) == FALSE

\* existingUsers.length > 0, existingUnits.length > 0
Existing(table) == Len(table) > 0

\* const existingUsers = await db.select().from(users)
SeedStart(p) ==
  /\ pc[p] = "idle"
  /\ UNCHANGED <<now, assignments, completedAssignments, userRank>>
  /\ UNCHANGED otherTables
  /\ LET r == [NoReq EXCEPT !.op = "seed", !.queries = 1]
     IN \/ SeedFailed(p, r)
        \/ IF Existing(users) THEN SeedGoto(p, r, "seed_units")
           ELSE SeedGoto(p, r, "seed_insert_users")

\* one hashPassword("sds#website") for all the users, one insert of all of them
SeedInsertUsers(p) ==
  /\ pc[p] = "seed_insert_users"
  /\ UNCHANGED <<now, assignments, completedAssignments, userRank>>
  /\ UNCHANGED <<assignmentDeadline, units, viewTables>>
  /\ LET r == [req[p] EXCEPT !.queries = @ + 1]
     IN \/ SeedFailed(p, r) /\ UNCHANGED users
        \/ \E salt \in Salts :
             IF AdmissionNumberTaken(SeedUsers(salt))
             THEN SeedFailed(p, r) /\ UNCHANGED users
             ELSE /\ users' = Inserted(users, SeedUsers(salt))
                  /\ SeedGoto(p, r, "seed_units")

\* const existingUnits = await db.select().from(units)
SeedUnitsCheck(p) ==
  /\ pc[p] = "seed_units"
  /\ UNCHANGED <<now, assignments, completedAssignments, userRank>>
  /\ UNCHANGED otherTables
  /\ LET r == [req[p] EXCEPT !.queries = @ + 1]
     IN \/ SeedFailed(p, r)
        \/ IF Existing(units) THEN SeedGoto(p, r, "done")
           ELSE SeedGoto(p, r, "seed_insert_units")

SeedInsertUnits(p) ==
  /\ pc[p] = "seed_insert_units"
  /\ UNCHANGED <<now, assignments, completedAssignments, userRank>>
  /\ UNCHANGED <<assignmentDeadline, users, viewTables>>
  /\ LET r == [req[p] EXCEPT !.queries = @ + 1]
     IN \/ SeedFailed(p, r) /\ UNCHANGED units
        \/ IF UnitCodeTaken(SeedUnits)
           THEN SeedFailed(p, r) /\ UNCHANGED units
           ELSE /\ units' = Inserted(units, SeedUnits)
                /\ SeedGoto(p, r, "done")

\* The database the script is run against: no users yet, or the users of a
\* portal in use (their passwords changed or not); no units yet, the seeded
\* unit, or a unit of another code.
SeedUserTables ==
  {<<>>} \cup
  {[u \in Users |-> [SeedUsers("s1")[u] EXCEPT !.password = HashPassword(pw[u], "s1")]] :
     pw \in [Users -> Passwords]}

SeedUnitTables == {<<>>, SeedUnits, <<[id |-> 1, unitCode |-> "U2"]>>}

InitSeed ==
  /\ now = 0
  /\ assignments = <<>>
  /\ assignmentDeadline = <<>>
  /\ completedAssignments = <<>>
  /\ userRank = [u \in Users |-> SeededRank(u)]
  /\ users \in SeedUserTables
  /\ units \in SeedUnitTables
  /\ userNoteViews = <<>>
  /\ userPaperViews = <<>>
  /\ pc = [p \in Procs |-> "idle"]
  /\ req = [p \in Procs |-> NoReq]
  /\ res = [p \in Procs |-> NoRes]

NextSeed ==
  \/ SeedStart(SeedProc)
  \/ SeedInsertUsers(SeedProc)
  \/ SeedUnitsCheck(SeedProc)
  \/ SeedInsertUnits(SeedProc)
  \/ Return(SeedProc)

SpecSeed == InitSeed /\ [][NextSeed]_vars

\* ------------------------------------------------------------ the other data routes

\* GET dashboard/activities, dashboard/deadlines, units, units/:unitCode,
\* .../notes, .../assignments, .../pastpapers: one storage read behind the gate
ReadRoutes ==
  {"activities", "deadlines", "units", "unit", "notes", "assignments", "pastpapers"}

\* POST .../notes and .../pastpapers: safeParse, then one storage insert into a
\* table the model does not hold
UploadRoutes == {"create_note", "create_paper"}

\* DELETE .../notes/:noteId, .../assignments/:assignmentId, .../pastpapers/:paperId
DeleteRoutes == {"delete_note", "delete_assignment", "delete_paper"}

DataRoutes ==
  {"stats", "rankings", "create", "complete", "view_note", "view_paper"}
    \cup ReadRoutes \cup UploadRoutes \cup DeleteRoutes

ReadRoute(p, route, authed) ==
  /\ pc[p] = "idle"
  /\ UNCHANGED <<now, assignments, completedAssignments, userRank>>
  /\ UNCHANGED otherTables
  /\ LET r == [NoReq EXCEPT !.authenticated = authed, !.op = route, !.queries = 1]
     IN IF ~authed THEN Unauthorized(p, route)
        ELSE \/ DbError(p, r)
             \/ Finish(p, r, 200, <<>>)

UploadRoute(p, route, valid, authed) ==
  /\ pc[p] = "idle"
  /\ UNCHANGED <<now, assignments, completedAssignments, userRank>>
  /\ UNCHANGED otherTables
  /\ LET r == [NoReq EXCEPT !.authenticated = authed, !.op = route]
     IN IF ~authed THEN Unauthorized(p, route)
        ELSE IF ~valid THEN Finish(p, r, 400, <<>>)
        ELSE \/ DbError(p, [r EXCEPT !.queries = 1])
             \/ Finish(p, [r EXCEPT !.queries = 1], 201, <<>>)

\* storage.deleteNote, deleteAssignment and deletePastPaper are called behind
\* the gate; the storage class holds no such method, the call throws inside the
\* try and the catch answers 500
DeleteRoute(p, route, authed) ==
  /\ pc[p] = "idle"
  /\ UNCHANGED <<now, assignments, completedAssignments, userRank>>
  /\ UNCHANGED otherTables
  /\ LET r == [NoReq EXCEPT !.authenticated = authed, !.op = route]
     IN IF ~authed THEN Unauthorized(p, route)
        ELSE DbError(p, r)

\* every route of registerRoutes, requests served one after the other at one
\* instant of the clock
NextRoutes ==
  \/ \E u \in Users, authed \in BOOLEAN : StatsStart(RankProc, u, authed)
  \/ StatsOverdue(RankProc)
  \/ StatsPending(RankProc)
  \/ \E route \in ReadRoutes, authed \in BOOLEAN : ReadRoute(RankProc, route, authed)
  \/ \E route \in UploadRoutes, valid \in BOOLEAN, authed \in BOOLEAN :
       UploadRoute(RankProc, route, valid, authed)
  \/ \E route \in DeleteRoutes, authed \in BOOLEAN : DeleteRoute(RankProc, route, authed)
  \/ \E noteId \in ItemIds, u \in Users, authed \in BOOLEAN :
       MarkNoteAsViewedStart(RankProc, noteId, u, authed)
  \/ MarkNoteAsViewedInsert(RankProc)
  \/ \E paperId \in ItemIds, u \in Users, authed \in BOOLEAN :
       MarkPastPaperAsViewedStart(RankProc, paperId, u, authed)
  \/ MarkPastPaperAsViewedInsert(RankProc)
  \/ \E u \in Units, deadline \in DeadlineInputs, checkedAt \in 0..now, authed \in BOOLEAN :
       CreateAssignment(RankProc, u, deadline, checkedAt, authed)
  \/ \E a \in 1..MaxAssignments, u \in Users, authed \in BOOLEAN :
       CompleteStart(RankProc, a, u, authed)
  \/ CompleteInsert(RankProc)
  \/ \E u \in Units, authed \in BOOLEAN : RankStart(RankProc, u, authed)
  \/ RankFinish(RankProc)
  \/ Return(RankProc)

SpecRoutes == Init /\ [][NextRoutes]_vars

\* ------------------------------------------------------------ what a returned ranking is checked against

\* p's rankings request has been answered with a list
RankReturned(p) ==
  pc[p] = "done" /\ req[p].op = "rankings" /\ res[p].status = 200

\* p's rankings request is over and no database call of it failed
RankCompleted(p) ==
  pc[p] = "done" /\ req[p].op = "rankings" /\ res[p].status # 401 /\ ~req[p].dbError

Rankings(p) == res[p].body

\* the fetched completions whose assignment is among the fetched assignments
ResolvedRows(p) ==
  {i \in DOMAIN req[p].userCompletions :
     \E k \in DOMAIN req[p].unitAssignments :
       req[p].unitAssignments[k].id = req[p].userCompletions[i].assignmentId}

UserRows(p, u) == {i \in ResolvedRows(p) : req[p].userCompletions[i].userId = u}

ResolvedUsers(p) == {req[p].userCompletions[i].userId : i \in ResolvedRows(p)}

CreatedAtOf(p, assignmentId) ==
  LET k == CHOOSE k \in DOMAIN req[p].unitAssignments :
             req[p].unitAssignments[k].id = assignmentId
  IN req[p].unitAssignments[k].createdAt

RowLatency(p, i) ==
  req[p].userCompletions[i].completedAt
    - CreatedAtOf(p, req[p].userCompletions[i].assignmentId)

RECURSIVE LatencySum(_, _)
LatencySum(p, rows) ==
  IF rows = {} THEN 0
  ELSE LET i == CHOOSE i \in rows : TRUE
       IN RowLatency(p, i) + LatencySum(p, rows \ {i})

FracLess(x, y) == x.num * y.den < y.num * x.den

\* C1: a returned ranking is in ascending order of average latency: no entry has
\* a larger average than the entry after it, so a user with a smaller average
\* stands before every user with a larger one.
C1_SortedByAverage ==
  \A p \in Procs :
    RankReturned(p) =>
      \A i, j \in DOMAIN Rankings(p) :
        FracLess(Rankings(p)[i].totalMilliseconds, Rankings(p)[j].totalMilliseconds)
          => i < j

\* the completions came back with the slower user first and the ranking lists the
\* faster one first
C1_Witness ==
  \E p \in Procs :
    /\ RankReturned(p)
    /\ Len(Rankings(p)) = 2
    /\ FracLess(Rankings(p)[1].totalMilliseconds, Rankings(p)[2].totalMilliseconds)
    /\ req[p].userCompletions[1].userId = Rankings(p)[2].userId

\* C2: the entry at 0-based index i has position i+1, so the positions of a
\* ranking of N entries are 1..N, each once, also between users whose averages
\* are equal.
C2_DensePositions ==
  \A p \in Procs :
    RankReturned(p) =>
      \A i \in DOMAIN Rankings(p) : Rankings(p)[i].position = i

\* two users with the same average hold positions 1 and 2
C2_Witness ==
  \E p \in Procs :
    /\ RankReturned(p)
    /\ Len(Rankings(p)) = 2
    /\ ~FracLess(Rankings(p)[1].totalMilliseconds, Rankings(p)[2].totalMilliseconds)
    /\ ~FracLess(Rankings(p)[2].totalMilliseconds, Rankings(p)[1].totalMilliseconds)
    /\ Rankings(p)[1].position = 1
    /\ Rankings(p)[2].position = 2

\* C3: a returned ranking has one entry for each user with at least one fetched
\* completion whose assignment is resolved, and no other entry.
C3_OneEntryPerUser ==
  \A p \in Procs :
    RankReturned(p) =>
      /\ Len(Rankings(p)) = Cardinality(ResolvedUsers(p))
      /\ \A u \in ResolvedUsers(p) :
           Cardinality({i \in DOMAIN Rankings(p) : Rankings(p)[i].userId = u}) = 1
      /\ \A i \in DOMAIN Rankings(p) : Rankings(p)[i].userId \in ResolvedUsers(p)

\* two users have fetched completions, only one of them a resolved one, and the
\* ranking has the one entry
C3_Witness ==
  \E p \in Procs :
    /\ RankReturned(p)
    /\ Len(Rankings(p)) = 1
    /\ \E i \in DOMAIN req[p].userCompletions :
         req[p].userCompletions[i].userId \notin ResolvedUsers(p)

\* C4: the average of an entry is the sum of the latencies of the user's resolved
\* completions divided by their number, as a fraction, with nothing rounded away.
C4_ExactAverage ==
  \A p \in Procs :
    RankReturned(p) =>
      \A i \in DOMAIN Rankings(p) :
        LET e == Rankings(p)[i]
            rows == UserRows(p, e.userId)
        IN /\ e.totalMilliseconds.den > 0
           /\ e.totalMilliseconds.num * Cardinality(rows)
                = LatencySum(p, rows) * e.totalMilliseconds.den

\* a user whose latencies do not divide evenly has an entry
C4_Witness ==
  \E p \in Procs :
    /\ RankReturned(p)
    /\ \E i \in DOMAIN Rankings(p) :
         LET rows == UserRows(p, Rankings(p)[i].userId)
         IN /\ Cardinality(rows) >= 2
            /\ LatencySum(p, rows) % Cardinality(rows) # 0

\* the number of items of `recent` that are the completion (assignmentId, completedAt)
ListedTimes(recent, a, t) ==
  Cardinality({k \in DOMAIN recent :
                 recent[k].assignmentId = a /\ recent[k].completedAt = t})

\* C5: recentCompletions holds min(3, completedAssignments) of the user's
\* completions, newest first, and no completion left out is newer than a listed
\* one.
C5_RecentCompletions ==
  \A p \in Procs :
    RankReturned(p) =>
      \A i \in DOMAIN Rankings(p) :
        LET e == Rankings(p)[i]
            recent == e.recentCompletions
            rows == UserRows(p, e.userId)
            uc == req[p].userCompletions
        IN /\ Len(recent) = IF e.completedAssignments < 3 THEN e.completedAssignments ELSE 3
           /\ \A k \in 1..(Len(recent) - 1) :
                recent[k].completedAt >= recent[k + 1].completedAt
           /\ \A k \in DOMAIN recent :
                /\ ListedTimes(recent, recent[k].assignmentId, recent[k].completedAt)
                     <= Cardinality({r \in rows :
                                       /\ uc[r].assignmentId = recent[k].assignmentId
                                       /\ uc[r].completedAt = recent[k].completedAt})
                /\ recent[k].createdAt = CreatedAtOf(p, recent[k].assignmentId)
                /\ Cardinality({r \in rows : uc[r].completedAt > recent[k].completedAt})
                     = Cardinality({m \in DOMAIN recent :
                                      recent[m].completedAt > recent[k].completedAt})

\* a user has more than three completions, the oldest came back first, and the
\* list leaves it out
C5_Witness ==
  \E p \in Procs :
    /\ RankReturned(p)
    /\ \E i \in DOMAIN Rankings(p) :
         LET e == Rankings(p)[i]
             uc == req[p].userCompletions
         IN /\ e.completedAssignments > 3
            /\ uc[1].userId = e.userId
            /\ \A k \in DOMAIN e.recentCompletions :
                 uc[1].completedAt < e.recentCompletions[k].completedAt

\* C6: a rankings call for a unit that has no assignment returns the empty list
\* after its first query: it reads no completion, whatever is stored for the
\* other units.
C6_EmptyUnit ==
  \A p \in Procs :
    (RankCompleted(p) /\ SelectUnitAssignments(req[p].unitCode) = <<>>) =>
      /\ res[p].status = 200
      /\ Rankings(p) = <<>>
      /\ req[p].queries = 1
      /\ req[p].userCompletions = <<>>

\* the unit has no assignment while completions are stored for another unit
C6_Witness ==
  \E p \in Procs :
    /\ RankReturned(p)
    /\ SelectUnitAssignments(req[p].unitCode) = <<>>
    /\ completedAssignments # <<>>

\* C7: a rankings call for a unit with assignments and no completion of any of
\* them is answered 200 with the empty list.
C7_NoCompletions ==
  \A p \in Procs :
    (/\ RankCompleted(p)
     /\ SelectUnitAssignments(req[p].unitCode) # <<>>
     /\ JoinedCompletions(req[p].unitCode) = <<>>) =>
      /\ res[p].status = 200
      /\ Rankings(p) = <<>>

\* the unit has an assignment, nobody completed it, and both queries ran
C7_Witness ==
  \E p \in Procs :
    /\ RankReturned(p)
    /\ SelectUnitAssignments(req[p].unitCode) # <<>>
    /\ JoinedCompletions(req[p].unitCode) = <<>>
    /\ req[p].queries = 2

\* the fetched completions without the unresolved ones
ResolvedCompletions(p) ==
  SelectSeq(req[p].userCompletions,
            LAMBDA c : \E k \in DOMAIN req[p].unitAssignments :
                         req[p].unitAssignments[k].id = c.assignmentId)

\* C8: a fetched completion whose assignment is not among the fetched assignments
\* is left out and fails nothing: the call is answered 200 with the ranking of the
\* same input without those completions, and a user with no resolved completion
\* has no entry.
C8_UnresolvedSkipped ==
  \A p \in Procs :
    (RankCompleted(p) /\ req[p].queries = 2) =>
      /\ res[p].status = 200
      /\ Rankings(p) = ComputeRankings(req[p].unitAssignments, ResolvedCompletions(p))
      /\ \A i \in DOMAIN Rankings(p) :
           /\ Rankings(p)[i].userId \in ResolvedUsers(p)
           /\ Rankings(p)[i].completedAssignments
                = Cardinality(UserRows(p, Rankings(p)[i].userId))

\* an assignment was created and completed between the two queries: its
\* completion is fetched unresolved, its user has no entry, another user has one
C8_Witness ==
  \E p \in Procs :
    /\ RankReturned(p)
    /\ Len(Rankings(p)) >= 1
    /\ \E i \in DOMAIN req[p].userCompletions :
         /\ i \notin ResolvedRows(p)
         /\ req[p].userCompletions[i].userId \notin ResolvedUsers(p)

\* C9: the completions table holds at most one row for each (assignment, user).
C9_OneCompletionPerPair ==
  \A i, j \in DOMAIN completedAssignments :
    (/\ completedAssignments[i].assignmentId = completedAssignments[j].assignmentId
     /\ completedAssignments[i].userId = completedAssignments[j].userId) => i = j

\* C10: completedAssignments of an entry is the number of the user's resolved
\* completion rows, each stored row counted, also when an (assignment, user) pair
\* is stored more than once; the user has that one entry.
C10_CountIsGroupSize ==
  \A p \in Procs :
    RankReturned(p) =>
      \A i \in DOMAIN Rankings(p) :
        /\ Rankings(p)[i].completedAssignments
             = Cardinality(UserRows(p, Rankings(p)[i].userId))
        /\ \A j \in DOMAIN Rankings(p) :
             Rankings(p)[j].userId = Rankings(p)[i].userId => j = i

\* a pair stored twice is counted twice
C10_Witness ==
  \E p \in Procs :
    /\ RankReturned(p)
    /\ \E i \in DOMAIN Rankings(p) :
         /\ Rankings(p)[i].completedAssignments = 2
         /\ \E r, q \in UserRows(p, Rankings(p)[i].userId) :
              /\ r # q
              /\ req[p].userCompletions[r].assignmentId
                   = req[p].userCompletions[q].assignmentId

\* ------------------------------------------------------------ reads that change nothing

\* the step is a step of p's rankings request
RankStep(p) ==
  /\ pc[p] \in {"idle", "rank_completions"}
  /\ pc'[p] # pc[p]
  /\ req'[p].op = "rankings"

\* the two queries of p's call ran and returned every stored row: all stored
\* assignments are of p's unit.  The tables only grow, so nothing was written
\* since the first query of the call.
ReadWholeTables(p) ==
  /\ RankReturned(p)
  /\ req[p].queries = 2
  /\ req[p].unitAssignments = assignments
  /\ req[p].userCompletions \in SelectUserCompletions(req[p].unitCode)
  /\ Len(req[p].userCompletions) = Len(completedAssignments)

\* what p's call read of its unit is what is stored for the unit now
ReadCurrentUnit(p) ==
  /\ RankReturned(p)
  /\ req[p].queries = 2
  /\ req[p].unitAssignments = SelectUnitAssignments(req[p].unitCode)
  /\ req[p].userCompletions \in SelectUserCompletions(req[p].unitCode)

\* the entries of a ranking without their places
EntrySet(rankings) ==
  {[userId |-> rankings[i].userId,
    completedAssignments |-> rankings[i].completedAssignments,
    totalMilliseconds |-> rankings[i].totalMilliseconds] : i \in DOMAIN rankings}

C12_CompletedAfterCreated ==
  \A i \in DOMAIN completedAssignments :
    /\ AssignmentExists(completedAssignments[i].assignmentId)
    /\ assignments[completedAssignments[i].assignmentId].createdAt
         <= completedAssignments[i].completedAt

\* ------------------------------------------------------------ what an entry is made of

\* the stored completions of user u for the assignments of the unit
StoredRowsOf(unitCode, u) ==
  {i \in DOMAIN completedAssignments :
     /\ completedAssignments[i].userId = u
     /\ AssignmentExists(completedAssignments[i].assignmentId)
     /\ assignments[completedAssignments[i].assignmentId].unitCode = unitCode}

StoredLatency(i) ==
  completedAssignments[i].completedAt
    - assignments[completedAssignments[i].assignmentId].createdAt

RECURSIVE StoredLatencySum(_)
StoredLatencySum(rows) ==
  IF rows = {} THEN 0
  ELSE LET i == CHOOSE i \in rows : TRUE
       IN StoredLatency(i) + StoredLatencySum(rows \ {i})

\* C13: over stored data that no write changes during the call, the entry of
\* user u in the ranking of unit U is made of u's stored completions of U's
\* assignments and of nothing else: its count is their number, its average is
\* their mean latency, and every item of its recent list is one of them.
C13_OwnCompletionsOfUnit ==
  \A p \in Procs :
    RankReturned(p) =>
      \A i \in DOMAIN Rankings(p) :
        LET e == Rankings(p)[i]
            rows == StoredRowsOf(req[p].unitCode, e.userId)
        IN /\ e.completedAssignments = Cardinality(rows)
           /\ e.totalMilliseconds.num * Cardinality(rows)
                = StoredLatencySum(rows) * e.totalMilliseconds.den
           /\ \A k \in DOMAIN e.recentCompletions :
                \E r \in rows :
                  /\ completedAssignments[r].assignmentId = e.recentCompletions[k].assignmentId
                  /\ completedAssignments[r].completedAt = e.recentCompletions[k].completedAt

\* the user of an entry also completed an assignment of another unit, later than
\* its own completion for this unit, and another user completed one of this unit
C13_Witness ==
  \E p \in Procs :
    /\ RankReturned(p)
    /\ \E i \in DOMAIN Rankings(p) :
         LET e == Rankings(p)[i]
         IN /\ e.completedAssignments = 1
            /\ StoredRowsOf(req[p].unitCode, 3 - e.userId) # {}
            /\ \E r \in DOMAIN completedAssignments, other \in Units \ {req[p].unitCode} :
                 /\ r \in StoredRowsOf(other, e.userId)
                 /\ StoredLatency(r) > e.totalMilliseconds.num

\* ------------------------------------------------------------ failed reads

\* a database call of p's rankings request failed
RankFailed(p) == pc[p] = "done" /\ req[p].op = "rankings" /\ req[p].dbError

\* C14: a rankings call one of whose two reads failed is answered 500 with no
\* list; the failed read was its last one (a failed first read is followed by no
\* completions read, a failed second read is not run again), and nothing fetched
\* is turned into a ranking.
C14_FailedReadFailsCall ==
  \A p \in Procs :
    RankFailed(p) =>
      /\ res[p].status = 500
      /\ Rankings(p) = <<>>
      /\ req[p].queries \in {1, 2}
      /\ req[p].userCompletions = <<>>
      /\ req[p].queries = 1 => req[p].unitAssignments = <<>>
      /\ req[p].queries = 2 => req[p].unitAssignments # <<>>

\* the assignments were read, the completions read failed while completions of
\* the unit are stored
C14_Witness ==
  \E p \in Procs :
    /\ RankFailed(p)
    /\ req[p].queries = 2
    /\ JoinedCompletions(req[p].unitCode) # <<>>
    /\ res[p].status = 500

\* ------------------------------------------------------------ unit codes

\* p's rankings request has been answered
RankAnswered(p) == pc[p] = "done" /\ req[p].op = "rankings"

\* C15: the rankings route never answers 404, and a rankings call for a unit code
\* that is not in the units table returns the empty list.
C15_UnknownUnitEmpty ==
  \A p \in Procs :
    RankAnswered(p) =>
      /\ res[p].status # 404
      /\ (RankCompleted(p) /\ req[p].unitCode \notin StoredUnits) =>
           /\ res[p].status = 200
           /\ Rankings(p) = <<>>

\* ------------------------------------------------------------ concurrent rankings calls

\* the results of a rankings call for the unit that runs alone on the stored data
AloneResults(unitCode) ==
  IF UnitIsEmpty(SelectUnitAssignments(unitCode)) THEN {<<>>}
  ELSE {ComputeRankings(SelectUnitAssignments(unitCode), userCompletions) :
          userCompletions \in SelectUserCompletions(unitCode)}

\* what p's call read of its unit, in one query or in two, is what is stored now
ReadUnchangedUnit(p) ==
  /\ RankReturned(p)
  /\ req[p].unitAssignments = SelectUnitAssignments(req[p].unitCode)
     \/ (req[p].queries = 1 /\ UnitIsEmpty(SelectUnitAssignments(req[p].unitCode)))
  /\ req[p].queries = 2 => req[p].userCompletions \in SelectUserCompletions(req[p].unitCode)

\* C16: a step of one rankings call changes nothing of any other request, and a
\* call over stored data of its unit that did not change returns a result of the
\* call run alone on that data, whatever other rankings calls ran between its
\* steps.
C16_IndependentCalls ==
  /\ [][\A p \in Procs :
          RankStep(p) =>
            \A q \in Procs \ {p} :
              pc'[q] = pc[q] /\ req'[q] = req[q] /\ res'[q] = res[q]]_vars
  /\ [](\A p \in Procs :
          ReadUnchangedUnit(p) => Rankings(p) \in AloneResults(req[p].unitCode))

\* p's completions query ran while another call stood between its two queries;
\* both calls, for the same unit, returned a ranking with an entry
C16_Witness ==
  \E p \in Procs, q \in Procs :
    /\ p # q
    /\ req[p].overlapped
    /\ ReadUnchangedUnit(p)
    /\ ReadUnchangedUnit(q)
    /\ req[q].queries = 2
    /\ req[p].unitCode = req[q].unitCode
    /\ Len(Rankings(p)) >= 1
    /\ Len(Rankings(q)) >= 1

\* ------------------------------------------------------------ stored assignments

\* C17: every step keeps every stored assignment, with its id and its createdAt;
\* a row that a step adds carries the database time of that step.
C17_CreatedAtFixed ==
  [][/\ \A i \in DOMAIN assignments :
          /\ i \in DOMAIN assignments'
          /\ assignments'[i].id = assignments[i].id
          /\ assignments'[i].createdAt = assignments[i].createdAt
     /\ \A i \in DOMAIN assignments' \ DOMAIN assignments :
          assignments'[i].createdAt = now]_vars

\* an assignment created at time 0 still carries 0 after a later assignment was
\* created, a completion of it was stored and a ranking with its latency returned
C17_Witness ==
  /\ Len(assignments) = 2
  /\ assignments[1].createdAt = 0
  /\ assignments[2].createdAt = 1
  /\ \E i \in DOMAIN completedAssignments : completedAssignments[i].assignmentId = 1
  /\ \E p \in Procs :
       /\ RankReturned(p)
       /\ \E k \in DOMAIN Rankings(p) :
            \E m \in DOMAIN Rankings(p)[k].recentCompletions :
              /\ Rankings(p)[k].recentCompletions[m].assignmentId = 1
              /\ Rankings(p)[k].recentCompletions[m].createdAt = 0

\* ------------------------------------------------------------ the two reads and the writes between them

\* The tables only grow, a row at a time, and a completion is stored after the
\* assignment it references.  So the stored data at an instant of p's call is a
\* prefix of each table as it stands at the call's completions read: la
\* assignments, among them every assignment the call fetched, and lc completions,
\* each referencing one of the la assignments.
CallInstants(p) ==
  {x \in (1..Len(assignments)) \X (0..Len(completedAssignments)) :
     /\ \A k \in DOMAIN req[p].unitAssignments : req[p].unitAssignments[k].id <= x[1]
     /\ \A i \in 1..x[2] : completedAssignments[i].assignmentId <= x[1]}

\* the rankings of the unit over the first la assignments and the first lc
\* completions, one for each order the completions can come back in
RankingsAt(unitCode, la, lc) ==
  LET unitAssignments ==
        SelectSeq(SubSeq(assignments, 1, la), LAMBDA a : a.unitCode = unitCode)
      stored ==
        SelectSeq(SubSeq(completedAssignments, 1, lc),
                  LAMBDA c : assignments[c.assignmentId].unitCode = unitCode)
      rows == [i \in DOMAIN stored |->
                 [userId |-> stored[i].userId,
                  assignmentId |-> stored[i].assignmentId,
                  completedAt |-> stored[i].completedAt]]
  IN IF unitAssignments = <<>> THEN {<<>>}
     ELSE {ComputeRankings(unitAssignments, [i \in DOMAIN rows |-> rows[f[i]]]) :
             f \in Permutations(DOMAIN rows)}

\* C18: the list a rankings call returns at its completions read is the ranking
\* of the unit over the stored data of one instant of the call.
C18_SingleInstant ==
  [][\A p \in Procs :
       (pc[p] = "rank_completions" /\ pc'[p] = "done" /\ res'[p].status = 200) =>
         \E x \in CallInstants(p) :
           res'[p].body \in RankingsAt(req[p].unitCode, x[1], x[2])]_vars

\* ------------------------------------------------------------ equal averages

\* the place in the fetched completions of the first resolved row of user u
FirstRow(p, u) == CHOOSE i \in UserRows(p, u) : \A j \in UserRows(p, u) : i <= j

SameAverage(x, y) == ~FracLess(x, y) /\ ~FracLess(y, x)

CompleteStep(p) ==
  /\ pc[p] \in {"idle", "complete_insert"}
  /\ pc'[p] # pc[p]
  /\ req'[p].op = "complete"

HasCompletion(assignmentId, userId) ==
  \E i \in DOMAIN completedAssignments :
    /\ completedAssignments[i].assignmentId = assignmentId
    /\ completedAssignments[i].userId = userId

\* C21: a completion request whose existence check runs when a completion of the
\* pair is stored is answered {alreadyCompleted: true} at that check and stores
\* nothing; and no step changes a stored completion, so the completedAt of the
\* first completion stays.
C21_SecondCallNoOp ==
  [][/\ \A p \in Procs :
          (/\ pc[p] = "idle"
           /\ pc'[p] # "idle"
           /\ req'[p].op = "complete"
           /\ res'[p].status # 401
           /\ ~req'[p].dbError
           /\ HasCompletion(req'[p].assignmentId, req'[p].userId)) =>
             /\ pc'[p] = "done"
             /\ res'[p] = [status |-> 200, body |-> <<"alreadyCompleted">>]
             /\ completedAssignments' = completedAssignments
     /\ \A i \in DOMAIN completedAssignments :
          /\ i \in DOMAIN completedAssignments'
          /\ completedAssignments'[i] = completedAssignments[i]]_vars

\* a second request for a pair completed at time 0 is answered alreadyCompleted
\* at time 1; the pair has its one row, still of time 0
C21_Witness ==
  \E p \in Procs :
    /\ pc[p] = "done"
    /\ req[p].op = "complete"
    /\ res[p].body = <<"alreadyCompleted">>
    /\ now = 1
    /\ Cardinality({i \in DOMAIN completedAssignments :
                      /\ completedAssignments[i].assignmentId = req[p].assignmentId
                      /\ completedAssignments[i].userId = req[p].userId
                      /\ completedAssignments[i].completedAt = 0}) = 1
    /\ Cardinality({i \in DOMAIN completedAssignments :
                      /\ completedAssignments[i].assignmentId = req[p].assignmentId
                      /\ completedAssignments[i].userId = req[p].userId}) = 1

\* ------------------------------------------------------------ rankings after a completion

\* how many of the fetched completions are the row (assignment, user, time)
FetchedTimes(p, c) ==
  Cardinality({i \in DOMAIN req[p].userCompletions : req[p].userCompletions[i] = c})

\* the call of q fetched every assignment and every completion the call of p
\* fetched.  The tables only grow, so this holds of every call q that starts
\* after a call p of the same unit has returned.
ReadAtLeast(q, p) ==
  /\ \A k \in DOMAIN req[p].unitAssignments :
       \E m \in DOMAIN req[q].unitAssignments :
         req[q].unitAssignments[m] = req[p].unitAssignments[k]
  /\ \A i \in DOMAIN req[p].userCompletions :
       FetchedTimes(p, req[p].userCompletions[i]) <= FetchedTimes(q, req[p].userCompletions[i])

CountOf(rankings, u) ==
  IF \E i \in DOMAIN rankings : rankings[i].userId = u
  THEN rankings[CHOOSE i \in DOMAIN rankings : rankings[i].userId = u].completedAssignments
  ELSE 0

\* C22: no step removes or changes a stored completion; the list a rankings call
\* returns has an entry for every user with a completion, stored when the
\* completions are read, of an assignment the call fetched at its start (the
\* completions that succeeded before the call started are among these); and a
\* call that read at least what another call of the unit read gives no user a
\* smaller completedAssignments.
C22_EntryStays ==
  /\ [][/\ \A i \in DOMAIN completedAssignments :
             /\ i \in DOMAIN completedAssignments'
             /\ completedAssignments'[i] = completedAssignments[i]
        /\ \A p \in Procs :
             (pc[p] = "rank_completions" /\ pc'[p] = "done" /\ res'[p].status = 200) =>
               \A i \in DOMAIN completedAssignments :
                 (\E k \in DOMAIN req[p].unitAssignments :
                    req[p].unitAssignments[k].id = completedAssignments[i].assignmentId) =>
                   CountOf(res'[p].body, completedAssignments[i].userId) >= 1]_vars
  /\ [](\A p, q \in Procs :
          (/\ RankReturned(p)
           /\ RankReturned(q)
           /\ req[p].unitCode = req[q].unitCode
           /\ ReadAtLeast(q, p)) =>
             \A u \in Users : CountOf(Rankings(q), u) >= CountOf(Rankings(p), u))

\* a ranking lists a user with one completion; the user completes a second
\* assignment of the unit and the next ranking lists the user with two
C22_Witness ==
  \E p, q \in Procs :
    /\ RankReturned(p)
    /\ RankReturned(q)
    /\ req[p].unitCode = req[q].unitCode
    /\ ReadAtLeast(q, p)
    /\ \E u \in Users : CountOf(Rankings(p), u) = 1 /\ CountOf(Rankings(q), u) = 2

\* ------------------------------------------------------------ C24

\* C24: PATCH /api/user/password changes the stored password only when the
\* supplied currentPassword matches the stored hash: every step that changes the
\* stored password of a user is the update of a request of that user whose
\* currentPassword matches the hash stored when the step is taken
C24_ChangeOnlyOnMatch ==
  [][\A u \in DOMAIN users :
       users'[u].password # users[u].password =>
         \E p \in Procs :
           /\ pc[p] = "password_update"
           /\ req[p].userId = u
           /\ ComparePasswords(req[p].currentPassword, users[u].password)]_vars

\* ------------------------------------------------------------ C26

LoginStep(p) == pc[p] = "idle" /\ pc'[p] = "done" /\ req'[p].op = "login"

AdmissionMatches(admissionNumber, password) ==
  {u \in DOMAIN users :
     /\ users[u].admissionNumber = admissionNumber
     /\ ComparePasswords(password, users[u].password)}

\* C26: a login attempt whose database reads succeed is answered 200 exactly
\* when a user with the supplied admission number exists and the supplied
\* password matches that user's stored hash, and then it authenticates that
\* user; the supplied name does not change which user is found; an attempt that
\* is not answered 200 authenticates no user
C26_LoginByAdmissionNumber ==
  /\ [][\A p \in Procs :
          LoginStep(p) =>
            LET r == req'[p]
                matching == AdmissionMatches(r.admissionNumber, r.password)
            IN /\ ~r.dbError => (res'[p].status = 200 <=> matching # {})
               /\ res'[p].status = 200 => res'[p].body = <<r.userId>> /\ r.userId \in matching
               /\ res'[p].status # 200 => res'[p].body = <<>> /\ r.userId = 0]_vars
  /\ [](\A admissionNumber \in AdmissionNumberInputs :
        \A name1 \in NameInputs, name2 \in NameInputs :
          FindLoginUser(name1, admissionNumber) = FindLoginUser(name2, admissionNumber))

\* a login that succeeded under a name that is not the user's, with a password
\* that is not the seeded one
C26_Witness ==
  \E p \in Procs :
    /\ pc[p] = "done"
    /\ req[p].op = "login"
    /\ res[p].status = 200
    /\ req[p].name # users[req[p].userId].name
    /\ req[p].password # DefaultPassword

\* ------------------------------------------------------------ C25

CreateStep(p) == pc[p] = "idle" /\ pc'[p] = "done" /\ req'[p].op = "create"

\* C25 as stated: every assignment created through the route has
\* deadline >= its creation time + 10 hours
C25_DeadlineAfterCreation ==
  \A i \in DOMAIN assignments :
    assignmentDeadline[i] >= assignments[i].createdAt + TenHours

\* C25, amended: the route stores an assignment only when its deadline is a
\* valid date at least 10 hours after the instant the handler checked it; a
\* deadline that is missing, invalid or earlier than that is answered 400 and
\* stores nothing; the stored row is created at or after the check, so its
\* deadline is at least 10 hours after the check, not after created_at
C25_DeadlineAfterCheck ==
  [][\A p \in Procs :
       CreateStep(p) =>
         LET r == req'[p]
             bad == \/ r.deadline.kind # "date"
                    \/ r.deadline.time < r.checkedAt + TenHours
         IN /\ res'[p].status = 400 => bad
            /\ bad /\ res'[p].status # 401 => res'[p].status = 400
            /\ res'[p].status # 201 =>
                 /\ assignments' = assignments
                 /\ assignmentDeadline' = assignmentDeadline
            /\ res'[p].status = 201 =>
                 /\ Len(assignments') = Len(assignments) + 1
                 /\ r.assignmentId = Len(assignments')
                 /\ assignmentDeadline'[r.assignmentId] = r.deadline.time
                 /\ assignmentDeadline'[r.assignmentId] >= r.checkedAt + TenHours
                 /\ r.checkedAt <= assignments'[r.assignmentId].createdAt]_vars

\* an assignment checked at one instant and inserted at a later one, with the
\* earliest deadline the check accepts
C25_Witness ==
  \E p \in Procs :
    /\ pc[p] = "done"
    /\ req[p].op = "create"
    /\ res[p].status = 201
    /\ req[p].checkedAt < assignments[req[p].assignmentId].createdAt
    /\ assignmentDeadline[req[p].assignmentId] = req[p].checkedAt + TenHours

\* ------------------------------------------------------------ C27

OnePerPair(views) ==
  \A i \in DOMAIN views, j \in DOMAIN views :
    views[i].itemId = views[j].itemId /\ views[i].userId = views[j].userId => i = j

RowsKept(before, after) ==
  /\ Len(after) >= Len(before)
  /\ \A i \in DOMAIN before : after[i] = before[i]

\* a request enters a view route while the pair it names is stored already
ViewAgainStep(p) ==
  /\ pc[p] = "idle"
  /\ pc'[p] # "idle"
  /\ \/ /\ req'[p].op = "view_note"
        /\ ExistingView(userNoteViews, req'[p].itemId, req'[p].userId)
     \/ /\ req'[p].op = "view_paper"
        /\ ExistingView(userPaperViews, req'[p].itemId, req'[p].userId)

\* C27: under every interleaving of markNoteAsViewed and markPastPaperAsViewed
\* calls there is at most one view record per (note, user) and per (paper,
\* user); a call for a pair that is stored already succeeds (its select not
\* failing) without writing; no step removes or alters a stored view record, so
\* its viewedAt stays the original one
C27_OneViewPerPair ==
  /\ [](OnePerPair(userNoteViews) /\ OnePerPair(userPaperViews))
  /\ [][/\ RowsKept(userNoteViews, userNoteViews')
        /\ RowsKept(userPaperViews, userPaperViews')
        /\ \A p \in Procs :
             ViewAgainStep(p) /\ ~req'[p].dbError =>
               /\ pc'[p] = "done"
               /\ res'[p].status = 200
               /\ req'[p].queries = 1
               /\ userNoteViews' = userNoteViews
               /\ userPaperViews' = userPaperViews]_vars

\* a second call for a viewed note answered 200 after its select alone, at a
\* later instant than the stored viewedAt, while a call that raced the first
\* insert was refused by the unique index
C27_Witness ==
  \E p \in Procs, q \in Procs :
    /\ pc[p] = "done" /\ req[p].op = "view_note" /\ res[p].status = 200
    /\ req[p].queries = 1
    /\ \E i \in DOMAIN userNoteViews :
         /\ userNoteViews[i].itemId = req[p].itemId
         /\ userNoteViews[i].userId = req[p].userId
         /\ userNoteViews[i].viewedAt < now
    /\ pc[q] = "done" /\ req[q].op = "view_paper" /\ req[q].dbError
    /\ req[q].queries = 2 /\ req[q].itemId \in StoredPapers
    /\ ExistingView(userPaperViews, req[q].itemId, req[q].userId)

\* ------------------------------------------------------------ C28

\* C28: in every getDashboardStats result for a user, overdue + pending equals
\* the number of assignments without a completion by that user (no such
\* assignment counted twice, none left out)
C28_OverduePendingPartition ==
  \A p \in Procs :
    pc[p] = "done" /\ req[p].op = "stats" /\ res[p].status = 200 =>
      res[p].body[1].overdue + res[p].body[1].pending
        = Cardinality(Uncompleted(req[p].userId))

\* ------------------------------------------------------------ C29

SeedCompleted(p) == pc[p] = "done" /\ req[p].op = "seed" /\ ~req[p].dbError

\* C29: no step of seed() changes the users table when it holds at least one
\* user, nor the units table when it holds at least one unit; a run that
\* completes leaves both tables non-empty, so every run after it leaves the
\* users and the units as that run left them
C29_SeedIdempotent ==
  /\ [][/\ users # <<>> => users' = users
        /\ units # <<>> => units' = units]_vars
  /\ [](\A p \in Procs : SeedCompleted(p) => users # <<>> /\ units # <<>>)

\* a run that completed after its two selects alone, over users that an
\* earlier run inserted (only the seed stores a password under salt "s2")
C29_Witness ==
  \E p \in Procs :
    /\ SeedCompleted(p)
    /\ req[p].queries = 2
    /\ \E u \in DOMAIN users : users[u].password = HashPassword(DefaultPassword, "s2")
    /\ units = SeedUnits

\* ------------------------------------------------------------ C23

storedTables ==
  <<assignments, assignmentDeadline, completedAssignments, userRank, users, units,
    userNoteViews, userPaperViews>>

\* a request that is not authenticated enters a data route
UnauthenticatedStep(p) ==
  /\ pc[p] = "idle"
  /\ pc'[p] # "idle"
  /\ req'[p].op \in DataRoutes
  /\ ~req'[p].authenticated

====
